---- MODULE Spec2Model ----
(***************************************************************************)
(* Model of the naver-search MCP server: process startup (credential       *)
(* validation, Remote Client initialisation, transport connection), the    *)
(* list-tools and call-tool request handlers of src/src/index.ts, and the  *)
(* search handlers of src/src/handlers/search.handlers.ts.                 *)
(*                                                                         *)
(* JavaScript values are tagged records [t |-> tag, v |-> payload]:        *)
(*   object : v is the ordered sequence of <<key, value>> own properties   *)
(*   array  : v is the sequence of elements                                *)
(*   Error  : v is the message string (an instance of Error)               *)
(*   function : v is the function's name                                   *)
(* A completion [kind, val] is how a piece of code finishes: it returns    *)
(* val, throws val, or is pending on a promise of the Remote Client.       *)
(***************************************************************************)
EXTENDS Integers, Sequences, FiniteSets, Bags, TLC

VARIABLES
    phase,                \* position of the module body of index.ts
    env,                  \* process.env restricted to the two credentials
    NAVER_CLIENT_ID,      \* const of index.ts:19
    NAVER_CLIENT_SECRET,  \* const of index.ts:20
    exitCode,             \* -1 while the process runs, else process.exit's code
    client,               \* the singleton Remote Client's configuration
    initCount,            \* number of client.initialize calls so far
    toolHandlers,         \* const of index.ts:56
    registered,           \* request kinds with a handler set on the server
    inflight,             \* bag of the call-tool invocations suspended at
                          \* `await handler(args)`
    sent                  \* the response being handed to the transport, if any

vars == <<phase, env, NAVER_CLIENT_ID, NAVER_CLIENT_SECRET, exitCode, client,
          initCount, toolHandlers, registered, inflight, sent>>

\* Number of call-tool invocations that may be suspended at the same time.
MaxInFlight == 2

-----------------------------------------------------------------------------
(* JavaScript values *)

Undefined == [t |-> "undefined", v |-> <<>>]
Null == [t |-> "null", v |-> <<>>]
Str(s) == [t |-> "string", v |-> s]
Num(n) == [t |-> "number", v |-> n]
BigInt(n) == [t |-> "bigint", v |-> n]
Obj(kv) == [t |-> "object", v |-> kv]
Arr(el) == [t |-> "array", v |-> el]
Err(m) == [t |-> "Error", v |-> m]
Fn(f) == [t |-> "function", v |-> f]

Return(x) == [kind |-> "return", val |-> x, calls |-> <<>>]
Throw(x) == [kind |-> "throw", val |-> x, calls |-> <<>>]
Pending(call) == [kind |-> "pending", val |-> Undefined, calls |-> <<call>>]

\* ToBoolean: what `!x` and `if (x)` test.
Truthy(x) ==
    CASE x.t \in {"undefined", "null"} -> FALSE
      [] x.t = "string" -> x.v # ""
      [] x.t = "number" -> x.v # 0
      [] OTHER -> TRUE

Keys(kv) == {kv[i][1] : i \in 1..Len(kv)}

HasOwn(o, k) == o.t = "object" /\ k \in Keys(o.v)

OwnValue(o, k) == LET i == CHOOSE j \in 1..Len(o.v) : o.v[j][1] = k IN o.v[i][2]

\* The properties every ordinary object inherits from Object.prototype that
\* the model distinguishes; `__proto__` is the accessor yielding the prototype.
ObjectPrototype(k) ==
    CASE k = "constructor" -> Fn("Object")
      [] k = "toString" -> Fn("Object.prototype.toString")
      [] k = "__proto__" -> Obj(<<>>)
      [] OTHER -> Undefined

\* o[k] on an ordinary object: own property first, then the prototype chain.
GetProp(o, k) == IF HasOwn(o, k) THEN OwnValue(o, k) ELSE ObjectPrototype(k)

\* Defining property k on the property list kv: an existing key keeps its
\* position and takes the new value, a new key is appended.
SetProp(kv, k, x) ==
    IF k \in Keys(kv)
    THEN [i \in 1..Len(kv) |-> IF kv[i][1] = k THEN <<k, x>> ELSE kv[i]]
    ELSE Append(kv, <<k, x>>)

\* Object spread `...src` into the property list kv, in src's property order.
RECURSIVE SpreadInto(_, _)
SpreadInto(kv, src) ==
    IF src = <<>> THEN kv
    ELSE SpreadInto(SetProp(kv, src[1][1], src[1][2]), Tail(src))

-----------------------------------------------------------------------------
(* String(x) and JSON.stringify(x, null, 2) *)

RECURSIVE ToStr(_)
RECURSIVE JoinElems(_)
\* Array.prototype.join(","): null and undefined elements give "".
JoinElems(el) ==
    IF el = <<>> THEN ""
    ELSE (IF el[1].t \in {"undefined", "null"} THEN "" ELSE ToStr(el[1]))
         \o (IF Len(el) > 1 THEN "," \o JoinElems(Tail(el)) ELSE "")

\* String(x) for a value that is not an instance of Error.
ToStr(x) ==
    CASE x.t = "string" -> x.v
      [] x.t \in {"number", "bigint"} -> ToString(x.v)
      [] x.t = "null" -> "null"
      [] x.t = "undefined" -> "undefined"
      [] x.t = "array" -> JoinElems(x.v)
      [] x.t = "Error" -> "Error: " \o x.v
      [] x.t = "function" -> "function " \o x.v \o "() { [native code] }"
      [] OTHER -> "[object Object]"

\* The strings of the model hold no character that JSON escapes.
Quote(s) == "\"" \o s \o "\""

RECURSIVE Serializable(_)
\* FALSE where JSON.stringify throws a TypeError: a BigInt anywhere in x.
Serializable(x) ==
    CASE x.t = "bigint" -> FALSE
      [] x.t = "array" -> \A i \in 1..Len(x.v) : Serializable(x.v[i])
      [] x.t = "object" -> \A i \in 1..Len(x.v) : Serializable(x.v[i][2])
      [] OTHER -> TRUE

\* Properties whose value is undefined or a function are left out of an object.
Enumerated(kv) == SelectSeq(kv, LAMBDA p : p[2].t \notin {"undefined", "function"})

RECURSIVE Ser(_, _)
RECURSIVE SerProps(_, _)
RECURSIVE SerElems(_, _)
SerProps(kv, ind) ==
    ind \o Quote(kv[1][1]) \o ": " \o Ser(kv[1][2], ind)
        \o (IF Len(kv) > 1 THEN ",\n" \o SerProps(Tail(kv), ind) ELSE "")

SerElems(el, ind) ==
    ind \o (IF el[1].t \in {"undefined", "function"} THEN "null" ELSE Ser(el[1], ind))
        \o (IF Len(el) > 1 THEN ",\n" \o SerElems(Tail(el), ind) ELSE "")

\* The text of a serializable value at indentation ind, with gap "  ".
Ser(x, ind) ==
    CASE x.t = "string" -> Quote(x.v)
      [] x.t = "number" -> ToString(x.v)
      [] x.t = "null" -> "null"
      [] x.t = "array" ->
            IF x.v = <<>> THEN "[]"
            ELSE "[\n" \o SerElems(x.v, ind \o "  ") \o "\n" \o ind \o "]"
      [] x.t = "object" ->
            IF Enumerated(x.v) = <<>> THEN "{}"
            ELSE "{\n" \o SerProps(Enumerated(x.v), ind \o "  ") \o "\n" \o ind \o "}"
      [] OTHER -> "{}"

\* JSON.stringify(x, null, 2): a string, undefined, or a thrown TypeError.
JSONStringify(x) ==
    IF ~Serializable(x) THEN Throw(Err("Do not know how to serialize a BigInt"))
    ELSE IF x.t \in {"undefined", "function"} THEN Return(Undefined)
    ELSE Return(Str(Ser(x, "")))

-----------------------------------------------------------------------------
(* The Remote Client and the handlers of search.handlers.ts *)

\* A method call on the singleton client: a promise settled by the network.
ClientCall(method, req) == Pending([method |-> method, req |-> req])

\* `{ type: T }`: the caller's fields are dropped.
TypedRequestTypeOnly(T, params) == Obj(<< <<"type", Str(T)>> >>)

\* `{ type: T, ...params }`
TypedRequest(T, params) == Obj(SpreadInto(<< <<"type", Str(T)>> >>, params.v))

handleAcademicSearch(params) == ClientCall("searchAcademic", params)
handleBookSearch(params) == ClientCall("search", TypedRequest("book", params))
handleEncycSearch(params) == ClientCall("search", TypedRequest("encyc", params))
handleImageSearch(params) == ClientCall("search", TypedRequest("image", params))
handleKinSearch(params) == ClientCall("search", TypedRequest("kin", params))
\* The local search routed through the generic search method.
handleLocalSearchGeneric(params) == ClientCall("search", TypedRequest("local", params))

handleLocalSearch(params) == ClientCall("searchLocal", params)
handleNewsSearch(params) == ClientCall("search", TypedRequest("news", params))
handleBlogSearch(params) == ClientCall("search", TypedRequest("blog", params))
handleShopSearch(params) == ClientCall("search", TypedRequest("shop", params))
handleCafeArticleSearch(params) == ClientCall("search", TypedRequest("cafearticle", params))
handleWebKrSearch(args) == ClientCall("search", TypedRequest("webkr", args))

\* A handler of handlers/datalab.handlers.ts: one pass-through client call.
handleTrendAnalysis(params) == ClientCall("datalab", params)

\* f(args), for whatever value f the lookup produced.
Apply(f, args) ==
    IF f.t # "function" THEN Throw(Err("handler is not a function"))
    ELSE CASE f.v = "handleAcademicSearch" -> handleAcademicSearch(args)
           [] f.v = "handleBookSearch" -> handleBookSearch(args)
           [] f.v = "handleEncycSearch" -> handleEncycSearch(args)
           [] f.v = "handleImageSearch" -> handleImageSearch(args)
           [] f.v = "handleKinSearch" -> handleKinSearch(args)
           [] f.v = "handleLocalSearch" -> handleLocalSearch(args)
           [] f.v = "handleNewsSearch" -> handleNewsSearch(args)
           [] f.v = "handleBlogSearch" -> handleBlogSearch(args)
           [] f.v = "handleShopSearch" -> handleShopSearch(args)
           [] f.v = "handleCafeArticleSearch" -> handleCafeArticleSearch(args)
           [] f.v = "handleWebKrSearch" -> handleWebKrSearch(args)
           [] f.v = "handleTrendAnalysis" -> handleTrendAnalysis(args)
           [] f.v = "Object" -> Return(args)
           [] OTHER -> Return(Str("[object Undefined]"))

\* handlers/search.handlers.ts: tool name -> handler.
searchToolHandlers ==
    Obj(<< <<"academic-search", Fn("handleAcademicSearch")>>,
           <<"book-search", Fn("handleBookSearch")>>,
           <<"encyc-search", Fn("handleEncycSearch")>>,
           <<"image-search", Fn("handleImageSearch")>>,
           <<"kin-search", Fn("handleKinSearch")>>,
           <<"local-search", Fn("handleLocalSearch")>>,
           <<"news-search", Fn("handleNewsSearch")>>,
           <<"blog-search", Fn("handleBlogSearch")>>,
           <<"shop-search", Fn("handleShopSearch")>>,
           <<"cafearticle-search", Fn("handleCafeArticleSearch")>>,
           <<"webkr-search", Fn("handleWebKrSearch")>> >>)

\* handlers/datalab.handlers.ts: tool name -> handler.
datalabToolHandlers == Obj(<< <<"trend-analysis", Fn("handleTrendAnalysis")>> >>)

Descriptor(name) == Obj(<< <<"name", Str(name)>> >>)

\* tools/search.tools.ts: the descriptors of the search tools.
searchTools ==
    Arr([i \in 1..Len(searchToolHandlers.v) |-> Descriptor(searchToolHandlers.v[i][1])])

\* tools/datalab.tools.ts: the descriptors of the datalab tools.
datalabTools == Arr(<< Descriptor("trend-analysis") >>)

-----------------------------------------------------------------------------
(* index.ts *)

\* `{ ...searchToolHandlers, ...datalabToolHandlers }`
MergedHandlers(a, b) == Obj(SpreadInto(SpreadInto(<<>>, a.v), b.v))

\* `[...searchTools]`: the datalab tools are not advertised.
ToolListSearchOnly(a, b) == Arr(a.v)

\* `[...searchTools, ...datalabTools]`
ToolList(a, b) == Arr(a.v \o b.v)

TextContent(text) == << [type |-> "text", text |-> text] >>

\* The message taken as String(error) whatever the thrown value is.
createErrorResponseString(error) ==
    Return([content |-> TextContent(Str("Error: " \o ToStr(error))), isError |-> TRUE])

createErrorResponse(error) ==
    LET errorMessage == IF error.t = "Error" THEN error.v ELSE ToStr(error)
    IN  Return([content |-> TextContent(Str("Error: " \o errorMessage)), isError |-> TRUE])

\* The handler without its `if (!args)` check.
CallToolBodyNoArgsCheck(handlers, name, args) ==
    LET handler == GetProp(handlers, name)
    IN  IF ~Truthy(handler) THEN Throw(Err("Unknown tool: " \o name))
        ELSE Apply(handler, args)

\* The call-tool handler from its entry to `await handler(args)`.
CallToolBody(handlers, name, args) ==
    IF ~Truthy(args) THEN Throw(Err("Arguments are required"))
    ELSE LET handler == GetProp(handlers, name)
         IN  IF ~Truthy(handler) THEN Throw(Err("Unknown tool: " \o name))
             ELSE Apply(handler, args)

\* The result put in the text with String(result) instead of JSON.stringify.
CallToolRestString(settled) ==
    IF settled.kind = "throw" THEN settled
    ELSE Return([content |-> TextContent(Str(ToStr(settled.val)))])

\* The call-tool handler from the settling of the awaited value to its return.
CallToolRest(settled) ==
    IF settled.kind = "throw" THEN settled
    ELSE LET text == JSONStringify(settled.val)
         IN  IF text.kind = "throw" THEN text
             ELSE Return([content |-> TextContent(text.val)])

\* A catch that handles instances of Error only and rethrows the rest.
TryCatchErrorOnly(c) ==
    IF c.kind = "throw" /\ c.val.t = "Error" THEN createErrorResponse(c.val) ELSE c

\* try { ... } catch (error) { return createErrorResponse(error); }
TryCatch(c) == IF c.kind = "throw" THEN createErrorResponse(c.val) ELSE c

-----------------------------------------------------------------------------
(* Inputs *)

\* What the process environment may hold for each credential at launch.
EnvAtLaunch ==
    [ NAVER_CLIENT_ID : {Undefined, Str(""), Str("id-1")},
      NAVER_CLIENT_SECRET : {Undefined, Str(""), Str("secret-1")} ]

\* What a .env file may define.
DotenvFiles ==
    [ NAVER_CLIENT_ID : {Undefined, Str("id-1")},
      NAVER_CLIENT_SECRET : {Undefined, Str("secret-1")} ]

RegisteredNames == Keys(searchToolHandlers.v) \cup Keys(datalabToolHandlers.v)

UnregisteredNames == {"nonexistent-tool", "constructor", "toString", "__proto__"}

ToolNames == RegisteredNames \cup UnregisteredNames

ArgObjects ==
    { Obj(<<>>),
      Obj(<< <<"query", Str("test")>> >>),
      Obj(<< <<"type", Str("shop")>>, <<"query", Str("x")>> >>) }

ArgValues == {Undefined, Null} \cup ArgObjects

RemoteResults ==
    { Obj(<< <<"items", Arr(<<>>)>> >>),
      Obj(<< <<"total", Num(1)>>, <<"items", Arr(<< Obj(<< <<"title", Str("a")>> >>) >>)>> >>),
      Undefined,
      Obj(<< <<"total", BigInt(1)>> >>) }

RemoteErrors == { Err("rate limited"), Str("timeout"), Obj(<< <<"code", Num(429)>> >>) }

RemoteOutcomes == {Return(r) : r \in RemoteResults} \cup {Throw(e) : e \in RemoteErrors}

-----------------------------------------------------------------------------
(* State *)

\* A suspended invocation: its request and the client calls it has made.
Invocation(name, args, calls) == [name |-> name, args |-> args, calls |-> calls]

NoSent == [method |-> "", name |-> "", args |-> Undefined, calls |-> <<>>,
           settled |-> Return(Undefined), out |-> Return(Undefined)]

Uninitialized == [initialized |-> FALSE, clientId |-> Undefined, clientSecret |-> Undefined]

Init ==
    /\ phase = "start"
    /\ env \in EnvAtLaunch
    /\ NAVER_CLIENT_ID = Undefined
    /\ NAVER_CLIENT_SECRET = Undefined
    /\ exitCode = -1
    /\ client = Uninitialized
    /\ initCount = 0
    /\ toolHandlers = Undefined
    /\ registered = {}
    /\ inflight = EmptyBag
    /\ sent = NoSent

\* dotenv.config(): a variable of the file is set only where the environment
\* has no such key (an empty value is a key).
DotenvConfig ==
    /\ phase = "start"
    /\ \E file \in DotenvFiles :
          env' = [k \in DOMAIN env |-> IF env[k] = Undefined THEN file[k] ELSE env[k]]
    /\ phase' = "configured"
    /\ UNCHANGED <<NAVER_CLIENT_ID, NAVER_CLIENT_SECRET, exitCode, client, initCount,
                   toolHandlers, registered, inflight, sent>>

\* Only the client identifier is tested.
CredentialsMissingIdOnly(id, secret) == ~Truthy(id)

\* The condition of the `if` at index.ts:22.
CredentialsMissing(id, secret) == ~Truthy(id) \/ ~Truthy(secret)

ValidateEnv ==
    /\ phase = "configured"
    /\ NAVER_CLIENT_ID' = env.NAVER_CLIENT_ID
    /\ NAVER_CLIENT_SECRET' = env.NAVER_CLIENT_SECRET
    /\ IF CredentialsMissing(env.NAVER_CLIENT_ID, env.NAVER_CLIENT_SECRET)
       THEN phase' = "exited" /\ exitCode' = 1
       ELSE phase' = "validated" /\ UNCHANGED exitCode
    /\ UNCHANGED <<env, client, initCount, toolHandlers, registered, inflight, sent>>

\* client.initialize({ clientId, clientSecret })
Initialized(id, secret) == [initialized |-> TRUE, clientId |-> id, clientSecret |-> secret]

InitializeClient ==
    /\ phase = "validated"
    /\ client' = Initialized(NAVER_CLIENT_ID, NAVER_CLIENT_SECRET)
    /\ initCount' = initCount + 1
    /\ phase' = "initialized"
    /\ UNCHANGED <<env, NAVER_CLIENT_ID, NAVER_CLIENT_SECRET, exitCode, toolHandlers,
                   registered, inflight, sent>>

\* new Server(...), the two setRequestHandler calls and the toolHandlers const.
RegisterHandlers ==
    /\ phase = "initialized"
    /\ toolHandlers' = MergedHandlers(searchToolHandlers, datalabToolHandlers)
    /\ registered' = {"tools/list", "tools/call"}
    /\ phase' = "registered"
    /\ UNCHANGED <<env, NAVER_CLIENT_ID, NAVER_CLIENT_SECRET, exitCode, client,
                   initCount, inflight, sent>>

\* runServer() up to `await server.connect(transport)`.
RunServer ==
    /\ phase = "registered"
    /\ phase' = "connecting"
    /\ UNCHANGED <<env, NAVER_CLIENT_ID, NAVER_CLIENT_SECRET, exitCode, client,
                   initCount, toolHandlers, registered, inflight, sent>>

ConnectResolves ==
    /\ phase = "connecting"
    /\ phase' = "serving"
    /\ UNCHANGED <<env, NAVER_CLIENT_ID, NAVER_CLIENT_SECRET, exitCode, client,
                   initCount, toolHandlers, registered, inflight, sent>>

\* The catch of runServer: process.exit(1).
ConnectRejects ==
    /\ phase = "connecting"
    /\ phase' = "exited"
    /\ exitCode' = 1
    /\ UNCHANGED <<env, NAVER_CLIENT_ID, NAVER_CLIENT_SECRET, client, initCount,
                   toolHandlers, registered, inflight, sent>>

\* A request is read from the transport only while no response is being written.
Accepting == phase = "serving" /\ sent = NoSent

ListTools ==
    /\ Accepting
    /\ "tools/list" \in registered
    /\ sent' = [NoSent EXCEPT !.method = "tools/list",
                              !.out = Return([tools |-> ToolList(searchTools, datalabTools)])]
    /\ UNCHANGED <<phase, env, NAVER_CLIENT_ID, NAVER_CLIENT_SECRET, exitCode, client,
                   initCount, toolHandlers, registered, inflight>>

\* A call-tool request arrives: the handler runs until it returns or suspends.
CallTool(name, args) ==
    /\ Accepting
    /\ "tools/call" \in registered
    /\ LET c == CallToolBody(toolHandlers, name, args)
       IN  IF c.kind = "pending"
           THEN /\ BagCardinality(inflight) < MaxInFlight
                /\ inflight' = inflight (+) SetToBag({Invocation(name, args, c.calls)})
                /\ UNCHANGED sent
           ELSE /\ sent' = [method |-> "tools/call", name |-> name, args |-> args,
                            calls |-> <<>>, settled |-> c,
                            out |-> TryCatch(CallToolRest(c))]
                /\ UNCHANGED inflight
    /\ UNCHANGED <<phase, env, NAVER_CLIENT_ID, NAVER_CLIENT_SECRET, exitCode, client,
                   initCount, toolHandlers, registered>>

\* The client's promise of invocation i settles and the handler runs to its return.
RemoteSettles(i, outcome) ==
    /\ Accepting
    /\ BagIn(i, inflight)
    /\ sent' = [method |-> "tools/call", name |-> i.name, args |-> i.args,
                calls |-> i.calls, settled |-> outcome,
                out |-> TryCatch(CallToolRest(outcome))]
    /\ inflight' = inflight (-) SetToBag({i})
    /\ UNCHANGED <<phase, env, NAVER_CLIENT_ID, NAVER_CLIENT_SECRET, exitCode, client,
                   initCount, toolHandlers, registered>>

\* The transport has written the response.
Deliver ==
    /\ phase = "serving"
    /\ sent # NoSent
    /\ sent' = NoSent
    /\ UNCHANGED <<phase, env, NAVER_CLIENT_ID, NAVER_CLIENT_SECRET, exitCode, client,
                   initCount, toolHandlers, registered, inflight>>

Next ==
    \/ DotenvConfig
    \/ ValidateEnv
    \/ InitializeClient
    \/ RegisterHandlers
    \/ RunServer
    \/ ConnectResolves
    \/ ConnectRejects
    \/ ListTools
    \/ \E name \in ToolNames, args \in ArgValues : CallTool(name, args)
    \/ \E i \in BagToSet(inflight), outcome \in RemoteOutcomes : RemoteSettles(i, outcome)
    \/ Deliver

Spec == Init /\ [][Next]_vars

-----------------------------------------------------------------------------
(* Properties *)

\* p occurs in s as a substring.
Contains(s, p) == \E i \in 1..(Len(s) - Len(p) + 1) : SubSeq(s, i, i + Len(p) - 1) = p

IsCallResponse == sent.method = "tools/call"

Returned == sent.out.kind = "return"

Response == sent.out.val

\* The text of the response's first content element, as a string ("" if undefined).
ResponseText == IF Response.content[1].text.t = "string" THEN Response.content[1].text.v ELSE ""

IsErrorResponse == "isError" \in DOMAIN Response /\ Response.isError = TRUE

\* The own keys of the Handler Map.
HandlerKeys == IF toolHandlers.t = "object" THEN Keys(toolHandlers.v) ELSE {}

\* Every invocation the state knows: the suspended ones and the one just answered.
Invocations ==
    BagToSet(inflight)
        \cup (IF IsCallResponse THEN {Invocation(sent.name, sent.args, sent.calls)} ELSE {})

\* Tool name and search type of the nine generic search tools.
GenericTools ==
    { <<"book-search", "book">>, <<"encyc-search", "encyc">>, <<"image-search", "image">>,
      <<"kin-search", "kin">>, <<"news-search", "news">>, <<"blog-search", "blog">>,
      <<"shop-search", "shop">>, <<"cafearticle-search", "cafearticle">>,
      <<"webkr-search", "webkr">> }

ItemsEmpty == Obj(<< <<"items", Arr(<<>>)>> >>)

ItemsEmptyText == "{\n  \"items\": []\n}"

OneItem ==
    Obj(<< <<"total", Num(1)>>, <<"items", Arr(<< Obj(<< <<"title", Str("a")>> >>) >>)>> >>)

OneItemText == "{\n  \"total\": 1,\n  \"items\": [\n    {\n      \"title\": \"a\"\n    }\n  ]\n}"

HasBigInt == Obj(<< <<"total", BigInt(1)>> >>)

\* C1: every call-tool request, whatever its name, arguments and the handler's
\* outcome, ends with the handler returning (never raising) a response whose
\* content is one element {type: "text", text}.
C1_NeverRaises ==
    IsCallResponse =>
        /\ Returned
        /\ "content" \in DOMAIN Response
        /\ Len(Response.content) = 1
        /\ DOMAIN Response.content[1] = {"type", "text"}
        /\ Response.content[1].type = "text"

\* C1 witness: a result that cannot be serialized was answered by a returned response.
C1_Witness ==
    /\ IsCallResponse
    /\ sent.settled = Return(HasBigInt)
    /\ Returned
    /\ IsErrorResponse

\* C2: a name with no entry in the Handler Map, called with an argument object,
\* is answered by isError true and a text containing "Unknown tool", and no
\* Remote Client method is called.
C2_UnknownToolRejected ==
    (IsCallResponse /\ sent.name \notin HandlerKeys /\ sent.args.t = "object") =>
        /\ Returned
        /\ IsErrorResponse
        /\ Contains(ResponseText, "Unknown tool")
        /\ sent.calls = <<>>

\* C3: a registered name called with absent or null arguments is answered by
\* isError true and a text containing "Arguments are required" without the
\* handler being invoked (no client call; no invocation is ever suspended
\* without arguments); an empty argument object reaches the handler.
C3_MissingArguments ==
    /\ (IsCallResponse /\ sent.name \in HandlerKeys /\ sent.args.t \in {"undefined", "null"}) =>
            /\ Returned
            /\ IsErrorResponse
            /\ Contains(ResponseText, "Arguments are required")
            /\ sent.calls = <<>>
    /\ \A i \in BagToSet(inflight) : i.args.t = "object"
    /\ (IsCallResponse /\ sent.name \in HandlerKeys /\ sent.args = Obj(<<>>)) =>
            /\ Len(sent.calls) = 1
            /\ ~Contains(ResponseText, "Arguments are required")

\* C3 witness: news-search called with null arguments was answered by an error.
C3_Witness ==
    /\ IsCallResponse
    /\ sent.name = "news-search"
    /\ sent.args = Null
    /\ IsErrorResponse

\* The handler of a registered tool was invoked and its client call resolved.
HandlerReturned ==
    /\ IsCallResponse
    /\ sent.name \in HandlerKeys
    /\ Len(sent.calls) = 1
    /\ sent.settled.kind = "return"

MessageOf(e) ==
    CASE e.t = "Error" -> e.v
      [] e.t = "string" -> e.v
      [] OTHER -> "[object Object]"

\* C5: when the client call of a handler fails with message m, the response is
\* exactly {content: [{type: "text", text: "Error: " + m}], isError: true}, and
\* the invocation made that one client call only.
C5_RemoteFailure ==
    (IsCallResponse /\ sent.calls # <<>> /\ sent.settled.kind = "throw") =>
        /\ Returned
        /\ Response = [content |-> TextContent(Str("Error: " \o MessageOf(sent.settled.val))),
                       isError |-> TRUE]
        /\ sent.settled.val = Err("rate limited") => ResponseText = "Error: rate limited"
        /\ Len(sent.calls) = 1

\* C5 witness: the client call failed with Error("rate limited").
C5_Witness ==
    /\ IsCallResponse
    /\ sent.calls # <<>>
    /\ sent.settled = Throw(Err("rate limited"))
    /\ Returned

\* The names of a list of tool descriptors.
NamesOf(list) == {OwnValue(list.v[i], "name").v : i \in 1..Len(list.v)}

C7_GenericSearchRequest ==
    /\ \A i \in Invocations : \A g \in GenericTools :
          (i.name = g[1] /\ i.args.t = "object" /\ "type" \notin Keys(i.args.v)) =>
              i.calls = << [method |-> "search",
                            req |-> Obj(<< <<"type", Str(g[2])>> >> \o i.args.v)] >>
    /\ \A g \in GenericTools :
          (IsCallResponse /\ sent.name = g[1] /\ sent.args.t = "object"
                /\ sent.settled = Return(ItemsEmpty)) =>
              Returned /\ Response.content[1].text = Str(ItemsEmptyText)

\* C7 witness: news-search with {query: "test"} called
\* search({type: "news", query: "test"}) and answered its result.
C7_Witness ==
    /\ IsCallResponse
    /\ sent.name = "news-search"
    /\ sent.args = Obj(<< <<"query", Str("test")>> >>)
    /\ sent.calls = << [method |-> "search",
                        req |-> Obj(<< <<"type", Str("news")>>, <<"query", Str("test")>> >>)] >>
    /\ sent.settled = Return(ItemsEmpty)

\* C8: local-search makes exactly one client call, searchLocal with the
\* arguments unchanged, and academic-search exactly one, searchAcademic with the
\* arguments unchanged; neither calls the generic search method.
C8_DedicatedMethods ==
    \A i \in Invocations :
        /\ (i.name = "local-search" /\ i.args.t = "object") =>
                i.calls = << [method |-> "searchLocal", req |-> i.args] >>
        /\ (i.name = "academic-search" /\ i.args.t = "object") =>
                i.calls = << [method |-> "searchAcademic", req |-> i.args] >>

\* C8 witness: local-search with {query: "test"} was answered after its call.
C8_Witness ==
    /\ IsCallResponse
    /\ sent.name = "local-search"
    /\ sent.args = Obj(<< <<"query", Str("test")>> >>)
    /\ Len(sent.calls) = 1
    /\ sent.calls[1].method = "searchLocal"

BothCredentials == Truthy(env.NAVER_CLIENT_ID) /\ Truthy(env.NAVER_CLIENT_SECRET)

RequestBeingServed == sent # NoSent \/ inflight # EmptyBag

C9_State ==
    /\ (phase \notin {"start", "configured"} /\ ~BothCredentials) =>
            /\ phase = "exited"
            /\ exitCode = 1
            /\ client = Uninitialized
            /\ initCount = 0
            /\ registered = {}
            /\ ~RequestBeingServed
    /\ (phase = "serving" \/ RequestBeingServed) =>
            /\ BothCredentials
            /\ exitCode = -1
            /\ initCount = 1
            /\ client = [initialized |-> TRUE, clientId |-> env.NAVER_CLIENT_ID,
                         clientSecret |-> env.NAVER_CLIENT_SECRET]

C9_Step == client.initialized => (client' = client /\ initCount' = initCount)

\* C9: with a credential absent or empty after the environment is loaded, the
\* process exits with status 1 with the client never initialized, no handler
\* registered and no request served; whenever the server is serving, both
\* credentials are non-empty, the client was initialized exactly once with
\* them, and once initialized its configuration is never written again.
C9_StartupCredentials == [](C9_State) /\ [][C9_Step]_vars

\* C9 witness: the secret is empty, the identifier is not, and the process exited.
C9_Witness ==
    /\ phase = "exited"
    /\ exitCode = 1
    /\ Truthy(env.NAVER_CLIENT_ID)
    /\ env.NAVER_CLIENT_SECRET = Str("")

\* C10: whatever the argument object, also one that carries a type field, the
\* request a generic search tool passes to search names the tool's own type.
C10_TypeIsFixed ==
    \A i \in Invocations : \A g \in GenericTools :
        (i.name = g[1] /\ i.args.t = "object") =>
            /\ Len(i.calls) = 1
            /\ i.calls[1].method = "search"
            /\ GetProp(i.calls[1].req, "type") = Str(g[2])

====
